---- MODULE Spec2Model ----
(***************************************************************************)
(* Contacts REST backend: registration, login, bearer-token resolution     *)
(* with a Redis read-through cache, role checks, and per-owner contacts.   *)
(* Every HTTP request (dependency resolution + handler) is one action.     *)
(***************************************************************************)
EXTENDS Integers, Sequences, FiniteSets, TLC

\* ---------------------------------------------------------------- bounds
MaxUsers == 2
MaxContacts == 2
MaxTicks == 1
TickSeconds == 3600
NumSalts == 1

\* ------------------------------------------------------ program constants
JWT_EXPIRATION_SECONDS == 3600
CACHE_TTL == 3600
EMAIL_TOKEN_SECONDS == 604800
HTTP_200 == 200
HTTP_201 == 201
HTTP_400 == 400
HTTP_401 == 401
HTTP_403 == 403
HTTP_404 == 404
HTTP_406 == 406
HTTP_409 == 409
HTTP_422 == 422
HTTP_500 == 500

\* ------------------------------------------------------------ input sets
Usernames == {"ann", "bob"}
Emails == {"ann@x.io", "bob"}
Passwords == {"pw1", "pw2"}
Salts == 1..NumSalts
Subjects == Usernames \cup Emails

USER == "user"
ADMIN == "admin"
UserRole == {USER, ADMIN}

NoSub == "<no sub>"
AvatarNone == "<None>"
GravatarUrl == "gravatar"
CloudinaryUrl == "cloudinary"
JsonNull == "null"
NoExpiry == -1

JWT_SECRET == "secret"
ForgedKey == "forged"

NoUser == [id |-> 0]
NoContact == [id |-> 0]
\* None in a text column or field
NoneText == << "<None>" >>
NoEntry == [present |-> FALSE]
NoToken == [sub |-> NoSub, exp |-> 0, key |-> "none"]
JWTError == [error |-> "JWTError"]

\* Tokens a client may present: any subject (or none), signed with the
\* server's secret or another key, with an expiry on the clock's grid.
MaxClock == MaxTicks * TickSeconds
FarExp == MaxClock + JWT_EXPIRATION_SECONDS
Tokens ==
    [sub : Subjects \cup {NoSub}, exp : {FarExp}, key : {JWT_SECRET}]
    \cup [sub : {"ann"}, exp : {0}, key : {JWT_SECRET}]
    \cup [sub : {"ann"}, exp : {FarExp}, key : {ForgedKey}]

\* Injected failures of the cache client during token resolution.
Faults == {"none", "get", "dumps", "set", "expire"}

\* Contact text fields are sequences of characters so that pattern
\* matching can be computed.  A body may omit the optional field additional.
ContactBodies ==
    { [firstname |-> <<"A", "l">>, lastname |-> <<"B">>, email |-> <<"a", "@">>,
       phone |-> <<"1">>, birthdate |-> [year |-> 1990, month |-> 1, day |-> 30]],
      [firstname |-> <<"a">>, lastname |-> <<"l", "b">>, email |-> <<"c", "@">>,
       phone |-> <<"2">>, birthdate |-> [year |-> 1991, month |-> 2, day |-> 2],
       additional |-> <<"n">>] }

Todays == { [year |-> 2024, month |-> 1, day |-> 24] }

\* Clients whose requests are served concurrently; each has at most one
\* request in flight, suspended at one of the handler's awaits.
Clients == {"c1", "c2"}
Idle == [stage |-> "idle"]

VARIABLES users, contacts, nextContactId, cache, now, today, resp, inflight

vars == <<users, contacts, nextContactId, cache, now, today, resp, inflight>>

\* ------------------------------------------------------ Credential Hasher
get_password_hash(password, salt) ==
    [scheme |-> "bcrypt", salt |-> salt, digest |-> password]

verify_password(plain_password, hashed_password) ==
    /\ hashed_password.scheme = "bcrypt"
    /\ hashed_password.digest = plain_password

\* ------------------------------------------------------------ Token Codec
jwt_encode(sub, exp) == [sub |-> sub, exp |-> exp, key |-> JWT_SECRET]

jwt_decode_noexp(token, clock) ==
    IF token.key # JWT_SECRET THEN JWTError
    ELSE [sub |-> token.sub, exp |-> token.exp]

\* jose.jwt.decode: signature check, then the exp claim against the clock.
jwt_decode(token, clock) ==
    IF token.key # JWT_SECRET THEN JWTError
    ELSE IF token.exp < clock THEN JWTError
    ELSE [sub |-> token.sub, exp |-> token.exp]

create_access_token(sub, clock) == jwt_encode(sub, clock + JWT_EXPIRATION_SECONDS)

\* the email-verification token also carries an issued-at claim
create_email_token(email, clock) ==
    [sub |-> email, exp |-> clock + EMAIL_TOKEN_SECONDS, key |-> JWT_SECRET, iat |-> clock]

\* ------------------------------------------------------------ User Lookup
UserIds == 1..Len(users)

get_user_by_id_snapshot(user_id) ==
    IF user_id \in UserIds
    THEN IF cache[users[user_id].username].present
         THEN [users[user_id] EXCEPT !.hashed_password =
                   cache[users[user_id].username].data.hashed_password]
         ELSE users[user_id]
    ELSE NoUser

get_user_by_id(user_id) ==
    IF user_id \in UserIds THEN users[user_id] ELSE NoUser

get_user_by_username_never(username) == NoUser

get_user_by_username(username) ==
    IF \E i \in UserIds : users[i].username = username
    THEN users[CHOOSE i \in UserIds : users[i].username = username]
    ELSE NoUser

get_user_by_email(email) ==
    IF \E i \in UserIds : users[i].email = email
    THEN users[CHOOSE i \in UserIds : users[i].email = email]
    ELSE NoUser

is_only_user_nonempty(us) ==
    LET n == Len(us) IN (IF n > 2 THEN 2 ELSE n) >= 1

\* select(User).limit(2); len(...) == 1, evaluated on a users table us
is_only_user(us) ==
    LET n == Len(us) IN (IF n > 2 THEN 2 ELSE n) = 1

\* repository create_user: insert with column defaults, commit, refresh
create_user(username, email, hashed_password, avatar) ==
    [id |-> Len(users) + 1, username |-> username, email |-> email,
     hashed_password |-> hashed_password, avatar |-> avatar,
     confirmed |-> FALSE, role |-> USER]

update_user_role_reset(us, user_id, new_role) ==
    [us EXCEPT ![user_id].role = new_role, ![user_id].confirmed = FALSE]

update_user_role(us, user_id, new_role) ==
    [us EXCEPT ![user_id].role = new_role]

update_avatar_url(us, email, url) ==
    [i \in DOMAIN us |-> IF us[i].email = email
                         THEN [us[i] EXCEPT !.avatar = url] ELSE us[i]]

update_user_password(us, user_id, new_hashed_password) ==
    [us EXCEPT ![user_id].hashed_password = new_hashed_password]

repo_confirmed_email_all(us, email) ==
    [i \in DOMAIN us |-> [us[i] EXCEPT !.confirmed = TRUE]]

repo_confirmed_email(us, email) ==
    [i \in DOMAIN us |-> IF us[i].email = email
                         THEN [us[i] EXCEPT !.confirmed = TRUE] ELSE us[i]]

\* ---------------------------------------------------------- Session Cache
\* models.User.to_dict followed by json.dumps: every column, None -> null
to_dict(u) == u

json_dumps(d) ==
    [k \in DOMAIN d |-> IF k = "avatar" /\ d[k] = AvatarNone THEN JsonNull ELSE d[k]]

json_loads(s) ==
    [k \in DOMAIN s |-> IF k = "avatar" /\ s[k] = JsonNull THEN AvatarNone ELSE s[k]]

\* schemas.User(**user_data): id, username, email, avatar: str, role
UserModel_valid(d) ==
    /\ {"id", "username", "email", "avatar", "role"} \subseteq DOMAIN d
    /\ d.avatar # AvatarNone
    /\ d.role \in UserRole

\* schemas.User(...).model_dump(exclude_unset=True) then models.User(**...):
\* only the schema's five fields are set on the rebuilt instance.
UserModel_dump(d) ==
    [id |-> d.id, username |-> d.username, email |-> d.email,
     avatar |-> d.avatar, role |-> d.role]

redis_get(c, key) == c[key]

redis_set(c, key, data) ==
    [c EXCEPT ![key] = [present |-> TRUE, data |-> data, expireAt |-> NoExpiry]]

redis_expire(c, key, clock, seconds) ==
    IF c[key].present THEN [c EXCEPT ![key].expireAt = clock + seconds] ELSE c

\* ---------------------------------------------------------- Auth Resolver
AuthFail(status, detail, cacheRead, dbLookup) ==
    [status |-> status, detail |-> detail, user |-> NoUser, cache |-> cache,
     cacheRead |-> cacheRead, dbLookup |-> dbLookup, hit |-> FALSE,
     populated |-> FALSE]

cache_populate_by_email(username, user_instance, fault) ==
    IF fault = "dumps" \/ fault = "set" THEN cache
    ELSE LET written == redis_set(cache, user_instance.email,
                                  json_dumps(to_dict(user_instance)))
         IN IF fault = "expire" THEN written
            ELSE redis_expire(written, user_instance.email, now, CACHE_TTL)

\* The write-back block of get_current_user (try: dumps, set, expire).
cache_populate(username, user_instance, fault) ==
    IF fault = "dumps" \/ fault = "set" THEN cache
    ELSE LET written == redis_set(cache, username, json_dumps(to_dict(user_instance)))
         IN IF fault = "expire" THEN written
            ELSE redis_expire(written, username, now, CACHE_TTL)

get_current_user_db_raise(username, fault, cacheRead) ==
    LET user_instance == get_user_by_username(username) IN
    IF user_instance = NoUser
    THEN AuthFail(HTTP_401, "Could not validate credentials", cacheRead, TRUE)
    ELSE IF fault \in {"dumps", "set", "expire"}
    THEN AuthFail(HTTP_500, "redis error", cacheRead, TRUE)
    ELSE [status |-> HTTP_200, detail |-> "ok", user |-> user_instance,
          cache |-> cache_populate(username, user_instance, fault),
          cacheRead |-> cacheRead, dbLookup |-> TRUE, hit |-> FALSE,
          populated |-> TRUE]

get_current_user_db(username, fault, cacheRead) ==
    LET user_instance == get_user_by_username(username) IN
    IF user_instance = NoUser
    THEN AuthFail(HTTP_401, "Could not validate credentials", cacheRead, TRUE)
    ELSE [status |-> HTTP_200, detail |-> "ok", user |-> user_instance,
          cache |-> cache_populate(username, user_instance, fault),
          cacheRead |-> cacheRead, dbLookup |-> TRUE, hit |-> FALSE,
          populated |-> fault \notin {"dumps", "set"}]

get_current_user(token, fault) ==
    LET payload == jwt_decode(token, now) IN
    IF payload = JWTError \/ payload.sub = NoSub
    THEN AuthFail(HTTP_401, "Could not validate credentials", FALSE, FALSE)
    ELSE IF fault = "get"
    THEN AuthFail(HTTP_500, "redis error", TRUE, FALSE)
    ELSE LET cached_user == redis_get(cache, payload.sub) IN
         IF cached_user.present /\ UserModel_valid(json_loads(cached_user.data))
         THEN [status |-> HTTP_200, detail |-> "ok",
               user |-> UserModel_dump(json_loads(cached_user.data)),
               cache |-> cache, cacheRead |-> TRUE, dbLookup |-> FALSE,
               hit |-> TRUE, populated |-> FALSE]
         ELSE get_current_user_db(payload.sub, fault, TRUE)

get_current_admin_user_norole(token) ==
    LET payload == jwt_decode(token, now) IN
    IF payload = JWTError \/ payload.sub = NoSub
    THEN AuthFail(HTTP_401, "Could not validate credentials", FALSE, FALSE)
    ELSE LET user == get_user_by_username(payload.sub) IN
         IF user = NoUser
         THEN AuthFail(HTTP_401, "Could not validate credentials", FALSE, TRUE)
         ELSE [status |-> HTTP_200, detail |-> "ok", user |-> user, cache |-> cache,
               cacheRead |-> FALSE, dbLookup |-> TRUE, hit |-> FALSE,
               populated |-> FALSE]

get_current_admin_user(token) ==
    LET payload == jwt_decode(token, now) IN
    IF payload = JWTError \/ payload.sub = NoSub
    THEN AuthFail(HTTP_401, "Could not validate credentials", FALSE, FALSE)
    ELSE LET user == get_user_by_username(payload.sub) IN
         IF user = NoUser
         THEN AuthFail(HTTP_401, "Could not validate credentials", FALSE, TRUE)
         ELSE IF user.role # ADMIN
         THEN AuthFail(HTTP_403, "Insufficient access rights", FALSE, TRUE)
         ELSE [status |-> HTTP_200, detail |-> "ok", user |-> user, cache |-> cache,
               cacheRead |-> FALSE, dbLookup |-> TRUE, hit |-> FALSE,
               populated |-> FALSE]

\* ----------------------------------------------------------------- state
\* The response of the last request served.  n is the parity of the number
\* of requests served, so that a repeated request is a visible step.
Resp(op, auth, status, detail, req, body) ==
    [op |-> op, status |-> status, detail |-> detail, req |-> req, body |-> body, tasks |-> {},
     n |-> 1 - resp.n,
     user |-> auth.user, authStatus |-> auth.status, cacheRead |-> auth.cacheRead,
     dbLookup |-> auth.dbLookup, hit |-> auth.hit, populated |-> auth.populated]

\* background_tasks.add_task(send_email, email, username, base_url)
send_email(email, username) == [task |-> "send_email", email |-> email, username |-> username]

WithTasks(r, tasks) == [r EXCEPT !.tasks = tasks]

InitResp ==
    [op |-> "init", status |-> 0, detail |-> "", req |-> <<>>, body |-> <<>>, tasks |-> {},
     n |-> 0, user |-> NoUser, authStatus |-> 0, cacheRead |-> FALSE,
     dbLookup |-> FALSE, hit |-> FALSE, populated |-> FALSE]

NoAuth == [status |-> 0, user |-> NoUser, cacheRead |-> FALSE, dbLookup |-> FALSE,
           hit |-> FALSE, populated |-> FALSE]

Init ==
    /\ users = <<>>
    /\ contacts = {}
    /\ nextContactId = 1
    /\ cache = [k \in Subjects |-> NoEntry]
    /\ now = 0
    /\ today \in Todays
    /\ resp = InitResp
    /\ inflight = [c \in Clients |-> Idle]

\* ------------------------------------------------------------------ time
Tick ==
    /\ now + TickSeconds <= MaxClock
    /\ now' = now + TickSeconds
    /\ cache' = [k \in Subjects |->
                   IF cache[k].present /\ cache[k].expireAt # NoExpiry
                      /\ cache[k].expireAt <= now + TickSeconds
                   THEN NoEntry ELSE cache[k]]
    /\ resp' = Resp("tick", NoAuth, 0, "", <<>>, <<>>)
    /\ UNCHANGED <<users, contacts, nextContactId, today, inflight>>

\* --------------------------------------------------------- api/auth.py
\* response_model=schemas.User: avatar must be a str or serialisation fails
UserResponse_valid(u) == u.avatar # AvatarNone

UserResponse(u) ==
    [id |-> u.id, username |-> u.username, email |-> u.email,
     avatar |-> u.avatar, role |-> u.role]

\* services.users.UserService.create_user: the Gravatar lookup may raise,
\* in which case the avatar stays None.
service_avatar(gravatar_ok) == IF gravatar_ok THEN GravatarUrl ELSE AvatarNone

register_store_nopromote(new_user) == Append(users, new_user)

\* users table after create_user and the is_only_user promotion
register_store(new_user) ==
    LET created == Append(users, new_user) IN
    IF is_only_user(created)
    THEN update_user_role(created, new_user.id, ADMIN)
    ELSE created

register_user(username, email, password, salt, gravatar_ok) ==
    LET req == [username |-> username, email |-> email, password |-> password]
        new_user == create_user(username, email, get_password_hash(password, salt),
                                service_avatar(gravatar_ok))
        stored == register_store(new_user)
    IN
    /\ IF get_user_by_email(email) # NoUser
       THEN /\ resp' = Resp("register", NoAuth, HTTP_409, "email exists", req, NoUser)
            /\ UNCHANGED users
       ELSE IF get_user_by_username(username) # NoUser
       THEN /\ resp' = Resp("register", NoAuth, HTTP_409, "username exists", req, NoUser)
            /\ UNCHANGED users
       ELSE /\ Len(users) < MaxUsers
            /\ users' = stored
            /\ IF UserResponse_valid(stored[new_user.id])
               THEN resp' = WithTasks(Resp("register", NoAuth, HTTP_201, "created", req,
                                           UserResponse(stored[new_user.id])),
                                      {send_email(email, username)})
               ELSE resp' = Resp("register", NoAuth, HTTP_500,
                                 "ResponseValidationError", req, NoUser)
    /\ UNCHANGED <<contacts, nextContactId, cache, now, today, inflight>>

login_user_unconfirmed(username, password) ==
    LET req == [username |-> username, password |-> password]
        user == get_user_by_username(username)
    IN
    /\ resp' =
         IF user = NoUser \/ ~verify_password(password, user.hashed_password)
         THEN Resp("login", NoAuth, HTTP_401, "invalid credentials", req, NoToken)
         ELSE Resp("login", NoAuth, HTTP_200, "bearer", req,
                   create_access_token(user.username, now))
    /\ UNCHANGED <<users, contacts, nextContactId, cache, now, today, inflight>>

login_user(username, password) ==
    LET req == [username |-> username, password |-> password]
        user == get_user_by_username(username)
    IN
    /\ resp' =
         IF user = NoUser \/ ~verify_password(password, user.hashed_password)
         THEN Resp("login", NoAuth, HTTP_401, "invalid credentials", req, NoToken)
         ELSE IF ~user.confirmed
         THEN Resp("login", NoAuth, HTTP_401, "email not confirmed", req, NoToken)
         ELSE Resp("login", NoAuth, HTTP_200, "bearer", req,
                   create_access_token(user.username, now))
    /\ UNCHANGED <<users, contacts, nextContactId, cache, now, today, inflight>>

get_email_from_token_iat(token) ==
    LET payload == jwt_decode(token, now) IN
    IF payload = JWTError \/ "iat" \notin DOMAIN token THEN JWTError
    ELSE [email |-> payload.sub]

\* services.auth.get_email_from_token
get_email_from_token(token) ==
    LET payload == jwt_decode(token, now) IN
    IF payload = JWTError THEN JWTError ELSE [email |-> payload.sub]

confirmed_email(token) ==
    LET decoded == get_email_from_token(token)
        user == IF decoded = JWTError THEN NoUser ELSE get_user_by_email(decoded.email)
    IN
    /\ IF decoded = JWTError
       THEN /\ resp' = Resp("confirmed_email", NoAuth, HTTP_422,
                            "Invalid email verification token", token, NoUser)
            /\ users' = users
       ELSE IF user = NoUser
       THEN /\ resp' = Resp("confirmed_email", NoAuth, HTTP_400,
                            "Verification error", token, NoUser)
            /\ users' = users
       ELSE IF user.confirmed
       THEN /\ resp' = Resp("confirmed_email", NoAuth, HTTP_200,
                            "already confirmed", token, NoUser)
            /\ users' = users
       ELSE /\ resp' = Resp("confirmed_email", NoAuth, HTTP_200,
                            "confirmed", token, NoUser)
            /\ users' = repo_confirmed_email(users, decoded.email)
    /\ UNCHANGED <<contacts, nextContactId, cache, now, today, inflight>>

\* schemas.RequestEmail: email is an EmailStr
EmailStr_valid(email) == email = "ann@x.io"

request_email(email) ==
    LET user == get_user_by_email(email) IN
    /\ resp' =
         IF ~EmailStr_valid(email)
         THEN Resp("request_email", NoAuth, HTTP_422, "validation", email, NoUser)
         ELSE IF user = NoUser
         THEN Resp("request_email", NoAuth, HTTP_500, "AttributeError", email, NoUser)
         ELSE IF user.confirmed
         THEN Resp("request_email", NoAuth, HTTP_200, "already confirmed", email, NoUser)
         ELSE WithTasks(Resp("request_email", NoAuth, HTTP_200, "check your email",
                             email, NoUser),
                        {send_email(user.email, user.username)})
    /\ UNCHANGED <<users, contacts, nextContactId, cache, now, today, inflight>>

\* register_user served concurrently: one action per await of the handler.
\* get_user_by_email pre-check
register_check_email(c, username, email, password) ==
    LET req == [username |-> username, email |-> email, password |-> password] IN
    /\ inflight[c] = Idle
    /\ IF get_user_by_email(email) # NoUser
       THEN /\ resp' = Resp("register", NoAuth, HTTP_409, "email exists", req, NoUser)
            /\ inflight' = inflight
       ELSE /\ resp' = resp
            /\ inflight' = [inflight EXCEPT ![c] = [stage |-> "email_checked", req |-> req]]
    /\ UNCHANGED <<users, contacts, nextContactId, cache, now, today>>

\* get_user_by_username pre-check
register_check_username(c) ==
    /\ inflight[c].stage = "email_checked"
    /\ IF get_user_by_username(inflight[c].req.username) # NoUser
       THEN /\ resp' = Resp("register", NoAuth, HTTP_409, "username exists",
                            inflight[c].req, NoUser)
            /\ inflight' = [inflight EXCEPT ![c] = Idle]
       ELSE /\ resp' = resp
            /\ inflight' = [inflight EXCEPT ![c].stage = "username_checked"]
    /\ UNCHANGED <<users, contacts, nextContactId, cache, now, today>>

\* the unique constraints on users.username and users.email
unique_violation(new_user) ==
    \E i \in UserIds : \/ users[i].email = new_user.email
                        \/ users[i].username = new_user.username

\* create_user: INSERT and commit; a constraint violation raises
\* IntegrityError, which no handler catches
register_create(c, salt, gravatar_ok) ==
    LET req == inflight[c].req
        new_user == create_user(req.username, req.email,
                                get_password_hash(req.password, salt),
                                service_avatar(gravatar_ok))
    IN
    /\ inflight[c].stage = "username_checked"
    /\ IF unique_violation(new_user)
       THEN /\ resp' = Resp("register", NoAuth, HTTP_500, "IntegrityError", req, NoUser)
            /\ inflight' = [inflight EXCEPT ![c] = Idle]
            /\ users' = users
       ELSE /\ users' = Append(users, new_user)
            /\ resp' = resp
            /\ inflight' = [inflight EXCEPT ![c] =
                              [stage |-> "created", req |-> req, id |-> new_user.id]]
    /\ UNCHANGED <<contacts, nextContactId, cache, now, today>>

\* is_only_user: its own SELECT after the insert was committed
register_is_only_user(c) ==
    /\ inflight[c].stage = "created"
    /\ inflight' = [inflight EXCEPT ![c] =
                      [stage |-> "counted", req |-> inflight[c].req,
                       id |-> inflight[c].id, only |-> is_only_user(users)]]
    /\ resp' = resp
    /\ UNCHANGED <<users, contacts, nextContactId, cache, now, today>>

\* the promotion when is_only_user was true, then the response
register_respond(c) ==
    LET req == inflight[c].req
        stored == IF inflight[c].only
                  THEN update_user_role(users, inflight[c].id, ADMIN) ELSE users
    IN
    /\ inflight[c].stage = "counted"
    /\ users' = stored
    /\ inflight' = [inflight EXCEPT ![c] = Idle]
    /\ IF UserResponse_valid(stored[inflight[c].id])
       THEN resp' = WithTasks(Resp("register", NoAuth, HTTP_201, "created", req,
                                   UserResponse(stored[inflight[c].id])),
                              {send_email(req.email, req.username)})
       ELSE resp' = Resp("register", NoAuth, HTTP_500, "ResponseValidationError",
                         req, NoUser)
    /\ UNCHANGED <<contacts, nextContactId, cache, now, today>>

\* a storage error (connection lost) after create_user committed: the
\* handler is abandoned before is_only_user or before the promotion
register_fail(c) ==
    /\ inflight[c].stage \in {"created", "counted"}
    /\ inflight' = [inflight EXCEPT ![c] = Idle]
    /\ resp' = Resp("register", NoAuth, HTTP_500, "OperationalError",
                    inflight[c].req, NoUser)
    /\ UNCHANGED <<users, contacts, nextContactId, cache, now, today>>

\* -------------------------------------------------------- api/users.py
me(token, fault) ==
    LET auth == get_current_user(token, fault)
        req == [token |-> token, fault |-> fault]
    IN
    /\ cache' = auth.cache
    /\ resp' =
         IF auth.status # HTTP_200
         THEN Resp("me", auth, auth.status, auth.detail, req, NoUser)
         ELSE IF ~UserResponse_valid(auth.user)
         THEN Resp("me", auth, HTTP_500, "ResponseValidationError", req, NoUser)
         ELSE Resp("me", auth, HTTP_200, "ok", req, UserResponse(auth.user))
    /\ UNCHANGED <<users, contacts, nextContactId, now, today, inflight>>

update_avatar_user(token, upload_ok) ==
    LET auth == get_current_admin_user(token)
        req == [token |-> token, upload_ok |-> upload_ok]
        updated == update_avatar_url(users, auth.user.email, CloudinaryUrl)
    IN
    /\ IF auth.status # HTTP_200
       THEN /\ resp' = Resp("update_avatar", auth, auth.status, auth.detail, req, NoUser)
            /\ users' = users
       ELSE IF ~upload_ok
       THEN /\ resp' = Resp("update_avatar", auth, HTTP_500, "upload error", req, NoUser)
            /\ users' = users
       ELSE /\ users' = updated
            /\ resp' = Resp("update_avatar", auth, HTTP_200, "ok", req,
                            UserResponse(updated[auth.user.id]))
    /\ UNCHANGED <<contacts, nextContactId, cache, now, today, inflight>>

update_role_noself(token, user_id, new_role) ==
    LET auth == get_current_admin_user(token)
        req == [token |-> token, user_id |-> user_id, new_role |-> new_role]
    IN
    /\ IF auth.status # HTTP_200
       THEN /\ resp' = Resp("update_role", auth, auth.status, auth.detail, req, "")
            /\ users' = users
       ELSE IF get_user_by_id(user_id) = NoUser
       THEN /\ resp' = Resp("update_role", auth, HTTP_500, "ValueError", req, "")
            /\ users' = users
       ELSE /\ users' = update_user_role(users, user_id, new_role)
            /\ resp' = Resp("update_role", auth, HTTP_200, "ok", req,
                            update_user_role(users, user_id, new_role)[user_id].role)
    /\ UNCHANGED <<contacts, nextContactId, cache, now, today, inflight>>

update_role(token, user_id, new_role) ==
    LET auth == get_current_admin_user(token)
        req == [token |-> token, user_id |-> user_id, new_role |-> new_role]
    IN
    /\ IF auth.status # HTTP_200
       THEN /\ resp' = Resp("update_role", auth, auth.status, auth.detail, req, "")
            /\ users' = users
       ELSE IF user_id = auth.user.id
       THEN /\ resp' = Resp("update_role", auth, HTTP_406,
                            "Admin can not change self role", req, "")
            /\ users' = users
       ELSE IF get_user_by_id(user_id) = NoUser
       THEN /\ resp' = Resp("update_role", auth, HTTP_500, "ValueError", req, "")
            /\ users' = users
       ELSE /\ users' = update_user_role(users, user_id, new_role)
            /\ resp' = Resp("update_role", auth, HTTP_200, "ok", req,
                            update_user_role(users, user_id, new_role)[user_id].role)
    /\ UNCHANGED <<contacts, nextContactId, cache, now, today, inflight>>

\* update-role served concurrently: the dependency get_current_admin_user
\* with the handler's self-change test, then the awaited update_user_role.
update_role_check(c, token, user_id, new_role) ==
    LET auth == get_current_admin_user(token)
        req == [token |-> token, user_id |-> user_id, new_role |-> new_role]
    IN
    /\ inflight[c] = Idle
    /\ IF auth.status # HTTP_200
       THEN /\ resp' = Resp("update_role", auth, auth.status, auth.detail, req, "")
            /\ inflight' = inflight
       ELSE IF user_id = auth.user.id
       THEN /\ resp' = Resp("update_role", auth, HTTP_406,
                            "Admin can not change self role", req, "")
            /\ inflight' = inflight
       ELSE /\ resp' = resp
            /\ inflight' = [inflight EXCEPT ![c] =
                              [stage |-> "role_checked", req |-> req, auth |-> auth]]
    /\ UNCHANGED <<users, contacts, nextContactId, cache, now, today>>

update_role_write(c) ==
    LET req == inflight[c].req
        auth == inflight[c].auth
    IN
    /\ inflight[c].stage = "role_checked"
    /\ inflight' = [inflight EXCEPT ![c] = Idle]
    /\ IF get_user_by_id(req.user_id) = NoUser
       THEN /\ resp' = Resp("update_role", auth, HTTP_500, "ValueError", req, "")
            /\ users' = users
       ELSE /\ users' = update_user_role(users, req.user_id, req.new_role)
            /\ resp' = Resp("update_role", auth, HTTP_200, "ok", req,
                            update_user_role(users, req.user_id, req.new_role)[req.user_id].role)
    /\ UNCHANGED <<contacts, nextContactId, cache, now, today>>

update_password_noverify(token, fault, old_password, new_password1, new_password2, salt) ==
    LET auth == get_current_user(token, fault)
        req == [token |-> token, fault |-> fault, old_password |-> old_password,
                new_password1 |-> new_password1, new_password2 |-> new_password2]
        user_data == IF auth.status = HTTP_200 THEN get_user_by_id(auth.user.id) ELSE NoUser
    IN
    /\ cache' = auth.cache
    /\ IF auth.status # HTTP_200
       THEN /\ resp' = Resp("update_password", auth, auth.status, auth.detail, req, "")
            /\ users' = users
       ELSE IF user_data = NoUser
       THEN /\ resp' = Resp("update_password", auth, HTTP_401, "wrong password", req, "")
            /\ users' = users
       ELSE IF new_password1 # new_password2
       THEN /\ resp' = Resp("update_password", auth, HTTP_400,
                            "New Passwords are not matching", req, "")
            /\ users' = users
       ELSE /\ users' = update_user_password(users, user_data.id,
                                             get_password_hash(new_password1, salt))
            /\ resp' = Resp("update_password", auth, HTTP_200, "Password updated", req, "")
    /\ UNCHANGED <<contacts, nextContactId, now, today, inflight>>

update_password(token, fault, old_password, new_password1, new_password2, salt) ==
    LET auth == get_current_user(token, fault)
        req == [token |-> token, fault |-> fault, old_password |-> old_password,
                new_password1 |-> new_password1, new_password2 |-> new_password2]
        user_data == IF auth.status = HTTP_200 THEN get_user_by_id(auth.user.id) ELSE NoUser
    IN
    /\ cache' = auth.cache
    /\ IF auth.status # HTTP_200
       THEN /\ resp' = Resp("update_password", auth, auth.status, auth.detail, req, "")
            /\ users' = users
       ELSE IF user_data = NoUser \/ ~verify_password(old_password, user_data.hashed_password)
       THEN /\ resp' = Resp("update_password", auth, HTTP_401, "wrong password", req, "")
            /\ users' = users
       ELSE IF new_password1 # new_password2
       THEN /\ resp' = Resp("update_password", auth, HTTP_400,
                            "New Passwords are not matching", req, "")
            /\ users' = users
       ELSE /\ users' = update_user_password(users, user_data.id,
                                             get_password_hash(new_password1, salt))
            /\ resp' = Resp("update_password", auth, HTTP_200, "Password updated", req, "")
    /\ UNCHANGED <<contacts, nextContactId, now, today, inflight>>

\* ----------------------------------------------- repository/contacts.py
Lower(c) ==
    CASE c = "A" -> "a" [] c = "B" -> "b" [] c = "L" -> "l" [] OTHER -> c

LowerStr(str) == [i \in 1..Len(str) |-> Lower(str[i])]

RECURSIVE LikeMatch(_, _)
\* SQL LIKE: % matches any run of characters, _ any single character
LikeMatch(pattern, str) ==
    IF pattern = <<>> THEN str = <<>>
    ELSE IF Head(pattern) = "%"
    THEN LikeMatch(Tail(pattern), str) \/ (str # <<>> /\ LikeMatch(pattern, Tail(str)))
    ELSE /\ str # <<>>
         /\ (Head(pattern) = "_" \/ Head(pattern) = Head(str))
         /\ LikeMatch(Tail(pattern), Tail(str))

\* Contact.<column>.ilike(f"%{value}%")
ilike(column, value) ==
    LikeMatch(LowerStr(<<"%">> \o value \o <<"%">>), LowerStr(column))

\* An optional query parameter: absent (None) or a string
NoFilter == [given |-> FALSE]
Filter(value) == [given |-> TRUE, value |-> value]
Truthy(f) == f.given /\ f.value # <<>>

contact_matches(c, user, name, lastname, email) ==
    /\ c.user_id = user.id
    /\ (Truthy(name) \/ Truthy(lastname) \/ Truthy(email)) =>
          \/ (Truthy(name) /\ ilike(c.firstname, name.value))
          \/ (Truthy(lastname) /\ ilike(c.lastname, lastname.value))
          \/ (Truthy(email) /\ ilike(c.email, email.value))

\* the rows of a result set, in an order the database picks
Orderings(rows) ==
    { o \in [1..Cardinality(rows) -> rows] : \A r \in rows : \E i \in DOMAIN o : o[i] = r }

\* .offset(skip).limit(limit) applied to an ordered result
Window(ordered, skip, limit) ==
    LET n == Len(ordered)
        last == IF skip + limit < n THEN skip + limit ELSE n
    IN IF skip >= n THEN <<>> ELSE SubSeq(ordered, skip + 1, last)

get_contacts(user, name, lastname, email) ==
    { c \in contacts : contact_matches(c, user, name, lastname, email) }

get_contact_by_id_any(contact_id, user) ==
    IF \E c \in contacts : c.id = contact_id
    THEN CHOOSE c \in contacts : c.id = contact_id
    ELSE NoContact

get_contact_by_id(contact_id, user) ==
    IF \E c \in contacts : c.id = contact_id /\ c.user_id = user.id
    THEN CHOOSE c \in contacts : c.id = contact_id /\ c.user_id = user.id
    ELSE NoContact

\* schemas.ContactModel.additional: Optional[str] = None
ContactModel_additional(body) ==
    IF "additional" \in DOMAIN body THEN body.additional ELSE NoneText

\* Contact(**body.model_dump(exclude_unset=True)); user_id; add, commit,
\* refresh: an unset additional is left to the nullable column
new_contact(body, user) ==
    [id |-> nextContactId, user_id |-> user.id, firstname |-> body.firstname,
     lastname |-> body.lastname, email |-> body.email, phone |-> body.phone,
     birthdate |-> body.birthdate,
     additional |-> IF "additional" \in DOMAIN body THEN body.additional ELSE NoneText]

replace_contact_partial(contact, body) ==
    [contact EXCEPT !.firstname = body.firstname, !.lastname = body.lastname,
                    !.email = body.email, !.phone = body.phone,
                    !.birthdate = body.birthdate,
                    !.additional = IF "additional" \in DOMAIN body
                                   THEN body.additional ELSE contact.additional]

replace_contact(contact, body) ==
    [contact EXCEPT !.firstname = body.firstname, !.lastname = body.lastname,
                    !.email = body.email, !.phone = body.phone,
                    !.birthdate = body.birthdate,
                    !.additional = ContactModel_additional(body)]

IsLeap(y) == (y % 4 = 0 /\ y % 100 # 0) \/ y % 400 = 0

DaysInMonth(y, m) ==
    IF m = 2 THEN (IF IsLeap(y) THEN 29 ELSE 28)
    ELSE IF m \in {4, 6, 9, 11} THEN 30 ELSE 31

NextDay(d) ==
    IF d.day < DaysInMonth(d.year, d.month) THEN [d EXCEPT !.day = d.day + 1]
    ELSE IF d.month < 12 THEN [d EXCEPT !.day = 1, !.month = d.month + 1]
    ELSE [year |-> d.year + 1, month |-> 1, day |-> 1]

RECURSIVE AddDays(_, _)
\* date + timedelta(days=n)
AddDays(d, n) == IF n = 0 THEN d ELSE AddDays(NextDay(d), n - 1)

get_upcoming_birthdays_today_only(user, day) ==
    { c \in contacts :
        /\ c.birthdate.month = day.month
        /\ c.birthdate.day >= day.day
        /\ c.birthdate.day <= day.day + 7
        /\ c.user_id = user.id }

get_upcoming_birthdays(user, day) ==
    LET next_week == AddDays(day, 7) IN
    { c \in contacts :
        /\ c.birthdate.month = day.month
        /\ c.birthdate.day >= day.day
        /\ c.birthdate.month = next_week.month
        /\ c.birthdate.day <= next_week.day
        /\ c.user_id = user.id }

\* ------------------------------------------------------ api/contacts.py
\* response_model ContactResponse: the contact without its owner column
ContactResponse(c) ==
    [id |-> c.id, firstname |-> c.firstname, lastname |-> c.lastname,
     email |-> c.email, phone |-> c.phone, birthdate |-> c.birthdate,
     additional |-> c.additional]

ContactList(ordered) == [i \in DOMAIN ordered |-> ContactResponse(ordered[i])]

api_get_upcoming_birthdays(token, fault) ==
    LET auth == get_current_user(token, fault)
        req == [token |-> token, fault |-> fault]
    IN
    /\ cache' = auth.cache
    /\ IF auth.status # HTTP_200
       THEN resp' = Resp("upcoming_birthdays", auth, auth.status, auth.detail, req, <<>>)
       ELSE \E o \in Orderings(get_upcoming_birthdays(auth.user, today)) :
              resp' = Resp("upcoming_birthdays", auth, HTTP_200, "ok", req, ContactList(o))
    /\ UNCHANGED <<users, contacts, nextContactId, now, today, inflight>>

read_contacts(token, fault, skip, limit, name, lastname, email) ==
    LET auth == get_current_user(token, fault)
        req == [token |-> token, fault |-> fault, skip |-> skip, limit |-> limit,
                name |-> name, lastname |-> lastname, email |-> email]
    IN
    /\ cache' = auth.cache
    /\ IF auth.status # HTTP_200
       THEN resp' = Resp("read_contacts", auth, auth.status, auth.detail, req, <<>>)
       ELSE \E o \in Orderings(get_contacts(auth.user, name, lastname, email)) :
              resp' = Resp("read_contacts", auth, HTTP_200, "ok", req,
                           ContactList(Window(o, skip, limit)))
    /\ UNCHANGED <<users, contacts, nextContactId, now, today, inflight>>

read_contact(token, fault, contact_id) ==
    LET auth == get_current_user(token, fault)
        req == [token |-> token, fault |-> fault, contact_id |-> contact_id]
        contact == get_contact_by_id(contact_id, auth.user)
    IN
    /\ cache' = auth.cache
    /\ resp' =
         IF auth.status # HTTP_200
         THEN Resp("read_contact", auth, auth.status, auth.detail, req, NoContact)
         ELSE IF contact = NoContact
         THEN Resp("read_contact", auth, HTTP_404, "Contact not found", req, NoContact)
         ELSE Resp("read_contact", auth, HTTP_200, "ok", req, ContactResponse(contact))
    /\ UNCHANGED <<users, contacts, nextContactId, now, today, inflight>>

create_contact(token, fault, body) ==
    LET auth == get_current_user(token, fault)
        req == [token |-> token, fault |-> fault, body |-> body]
        contact == new_contact(body, auth.user)
    IN
    /\ cache' = auth.cache
    /\ IF auth.status # HTTP_200
       THEN /\ resp' = Resp("create_contact", auth, auth.status, auth.detail, req, NoContact)
            /\ UNCHANGED <<contacts, nextContactId>>
       ELSE /\ nextContactId <= MaxContacts
            /\ contacts' = contacts \cup {contact}
            /\ nextContactId' = nextContactId + 1
            /\ resp' = Resp("create_contact", auth, HTTP_201, "created", req,
                            ContactResponse(contact))
    /\ UNCHANGED <<users, now, today, inflight>>

update_contact_upsert(token, fault, contact_id, body) ==
    LET auth == get_current_user(token, fault)
        req == [token |-> token, fault |-> fault, contact_id |-> contact_id, body |-> body]
        contact == get_contact_by_id(contact_id, auth.user)
    IN
    /\ cache' = auth.cache
    /\ IF auth.status # HTTP_200
       THEN /\ resp' = Resp("update_contact", auth, auth.status, auth.detail, req, NoContact)
            /\ contacts' = contacts
       ELSE IF contact = NoContact
       THEN /\ resp' = Resp("update_contact", auth, HTTP_404, "Contact not found", req, NoContact)
            /\ contacts' = contacts \cup {[new_contact(body, auth.user) EXCEPT !.id = contact_id]}
       ELSE /\ contacts' = (contacts \ {contact}) \cup {replace_contact(contact, body)}
            /\ resp' = Resp("update_contact", auth, HTTP_200, "ok", req,
                            ContactResponse(replace_contact(contact, body)))
    /\ UNCHANGED <<users, nextContactId, now, today, inflight>>

update_contact(token, fault, contact_id, body) ==
    LET auth == get_current_user(token, fault)
        req == [token |-> token, fault |-> fault, contact_id |-> contact_id, body |-> body]
        contact == get_contact_by_id(contact_id, auth.user)
    IN
    /\ cache' = auth.cache
    /\ IF auth.status # HTTP_200
       THEN /\ resp' = Resp("update_contact", auth, auth.status, auth.detail, req, NoContact)
            /\ contacts' = contacts
       ELSE IF contact = NoContact
       THEN /\ resp' = Resp("update_contact", auth, HTTP_404, "Contact not found", req, NoContact)
            /\ contacts' = contacts
       ELSE /\ contacts' = (contacts \ {contact}) \cup {replace_contact(contact, body)}
            /\ resp' = Resp("update_contact", auth, HTTP_200, "ok", req,
                            ContactResponse(replace_contact(contact, body)))
    /\ UNCHANGED <<users, nextContactId, now, today, inflight>>

remove_contact_keep(token, fault, contact_id) ==
    LET auth == get_current_user(token, fault)
        req == [token |-> token, fault |-> fault, contact_id |-> contact_id]
        contact == get_contact_by_id(contact_id, auth.user)
    IN
    /\ cache' = auth.cache
    /\ contacts' = contacts
    /\ resp' =
         IF auth.status # HTTP_200
         THEN Resp("remove_contact", auth, auth.status, auth.detail, req, NoContact)
         ELSE IF contact = NoContact
         THEN Resp("remove_contact", auth, HTTP_404, "Contact not found", req, NoContact)
         ELSE Resp("remove_contact", auth, HTTP_200, "ok", req, ContactResponse(contact))
    /\ UNCHANGED <<users, nextContactId, now, today, inflight>>

remove_contact(token, fault, contact_id) ==
    LET auth == get_current_user(token, fault)
        req == [token |-> token, fault |-> fault, contact_id |-> contact_id]
        contact == get_contact_by_id(contact_id, auth.user)
    IN
    /\ cache' = auth.cache
    /\ IF auth.status # HTTP_200
       THEN /\ resp' = Resp("remove_contact", auth, auth.status, auth.detail, req, NoContact)
            /\ contacts' = contacts
       ELSE IF contact = NoContact
       THEN /\ resp' = Resp("remove_contact", auth, HTTP_404, "Contact not found", req, NoContact)
            /\ contacts' = contacts
       ELSE /\ contacts' = contacts \ {contact}
            /\ resp' = Resp("remove_contact", auth, HTTP_200, "ok", req,
                            ContactResponse(contact))
    /\ UNCHANGED <<users, nextContactId, now, today, inflight>>

\* ============================================================== claims
\* the stored identity a token's subject names (NoUser if none)
Subject(token) == get_user_by_username(token.sub)

InvalidToken(token, clock) ==
    token.key # JWT_SECRET \/ token.exp < clock \/ token.sub = NoSub

ContactOps == {"read_contacts", "read_contact", "upcoming_birthdays",
               "create_contact", "update_contact", "remove_contact"}

BodyIds(r) ==
    IF r.op \in {"read_contacts", "upcoming_birthdays"}
    THEN {r.body[i].id : i \in DOMAIN r.body}
    ELSE IF r.body = NoContact THEN {} ELSE {r.body.id}

C1_Step ==
    resp'.op \in ContactOps /\ ~InvalidToken(resp'.req.token, now) =>
        LET A == Subject(resp'.req.token) IN
        /\ resp'.op \in {"read_contacts", "read_contact", "upcoming_birthdays"} =>
              \A c \in contacts : c.user_id # A.id => c.id \notin BodyIds(resp')
        /\ \A c \in contacts : c.user_id # A.id => c \in contacts'
        /\ /\ resp'.op \in {"read_contact", "update_contact", "remove_contact"}
           /\ \E c \in contacts : c.id = resp'.req.contact_id /\ c.user_id # A.id
           => resp'.status = HTTP_404

\* C1: owner scoping. No list, get-by-id or upcoming-birthdays call made by
\* identity A returns a contact owned by another identity, and no update or
\* delete made by A with such a contact's id changes or removes it (A gets
\* 404), whether A was resolved from the cache or from storage.
C1_OwnerScoping == [][C1_Step]_vars

C1_Witness ==
    /\ resp.op = "update_contact"
    /\ resp.hit
    /\ resp.status = HTTP_404
    /\ \E c \in contacts : c.id = resp.req.contact_id /\ c.user_id # resp.user.id

C2_Step ==
    resp'.op = "register" /\ resp'.status = HTTP_201 /\ Len(users) = 0 =>
        /\ Len(users') = 1
        /\ users'[1].role = ADMIN
        /\ resp'.body.role = ADMIN

\* C2: registering the first identity in an empty system yields role admin
\* for both the stored and the returned identity; is_only_user is true iff
\* exactly one identity exists.
C2_FirstIsAdmin ==
    /\ [][C2_Step]_vars
    /\ [](is_only_user(users) <=> Len(users) = 1)

C2_Witness ==
    /\ resp.op = "register"
    /\ resp.status = HTTP_201
    /\ resp.body.role = ADMIN
    /\ Len(users) = 1
    /\ users[1].role = ADMIN

Taken(req) ==
    \E i \in UserIds : users[i].email = req.email \/ users[i].username = req.username

C3_Step ==
    /\ resp'.op = "register" /\ Taken(resp'.req) =>
          resp'.status = HTTP_409 /\ users' = users
    /\ /\ resp.op = "register" /\ resp.status = HTTP_201
       /\ resp'.op = "register" /\ resp'.req.email = resp.req.email
       => resp'.status = HTTP_409

\* C3: registering with an email or a username that an existing identity
\* already has fails with 409 and leaves the stored identities unchanged;
\* two sequential registrations with the same email give 201 then 409.
C3_DuplicateConflict == [][C3_Step]_vars

C3_Witness ==
    /\ resp.op = "register"
    /\ resp.status = HTTP_409
    /\ resp.detail = "username exists"
    /\ get_user_by_email(resp.req.email) = NoUser

C4_Outcome ==
    resp.op = "login" =>
        LET stored == { users[i] : i \in UserIds }
            match == { u \in stored : /\ u.username = resp.req.username
                                      /\ u.hashed_password.digest = resp.req.password }
            confirmed == { u \in match : u.confirmed }
            gotToken == /\ resp.status = HTTP_200
                        /\ resp.body # NoToken
                        /\ jwt_decode(resp.body, now) # JWTError
                        /\ jwt_decode(resp.body, now).sub = resp.req.username
        IN
        /\ gotToken <=> confirmed # {}
        /\ match # {} /\ confirmed = {} =>
              /\ resp.status = HTTP_401
              /\ resp.detail = "email not confirmed"
              /\ resp.body = NoToken
        /\ match = {} =>
              /\ resp.status = HTTP_401
              /\ resp.detail = "invalid credentials"
              /\ resp.body = NoToken

\* C4: login returns a bearer token whose decoded subject is the username iff
\* the username exists, the password verifies and confirmed is true; matching
\* credentials with confirmed=false give 401 'email not confirmed', an unknown
\* username or wrong password gives 401 'invalid credentials', both without a
\* token; login never changes stored identities.
C4_LoginOutcome ==
    [][resp'.op = "login" => (users' = users /\ C4_Outcome')]_vars

C4_Witness ==
    /\ resp.op = "login"
    /\ resp.status = HTTP_200
    /\ jwt_decode(resp.body, now).sub = resp.req.username

ProtectedOps == ContactOps \cup {"me", "update_avatar", "update_role", "update_password"}

C5_Step ==
    resp'.op \in ProtectedOps /\ InvalidToken(resp'.req.token, now) =>
        /\ resp'.status = HTTP_401
        /\ resp'.authStatus = HTTP_401
        /\ ~resp'.cacheRead
        /\ ~resp'.dbLookup
        /\ UNCHANGED <<users, contacts, cache>>

\* C5: a token that is expired, badly signed or without subject fails with
\* 401 in get_current_user and in get_current_admin_user before any cache or
\* storage access; contacts, identities and cache stay unchanged.
C5_InvalidTokenRejected == [][C5_Step]_vars

C5_Witness ==
    /\ resp.op = "update_role"
    /\ resp.req.token.key = JWT_SECRET
    /\ resp.req.token.sub # NoSub
    /\ resp.req.token.exp < now
    /\ resp.status = HTTP_401

AdminOps == {"update_avatar", "update_role"}

C6_Step ==
    /\ resp'.op \in AdminOps /\ ~InvalidToken(resp'.req.token, now)
       /\ Subject(resp'.req.token) # NoUser
       => LET caller == Subject(resp'.req.token) IN
          /\ caller.role # ADMIN =>
                resp'.authStatus = HTTP_403 /\ resp'.status = HTTP_403 /\ users' = users
          /\ caller.role = ADMIN =>
                resp'.authStatus = HTTP_200 /\ resp'.user = caller
    /\ resp'.op \in AdminOps /\ users' # users =>
          /\ ~InvalidToken(resp'.req.token, now)
          /\ Subject(resp'.req.token) # NoUser
          /\ Subject(resp'.req.token).role = ADMIN

\* C6: get_current_admin_user with a valid token yields 403 when the
\* subject's role is not admin and returns the identity when it is; the
\* admin-only operations never mutate storage for a non-admin caller.
C6_AdminOnly == [][C6_Step]_vars

C6_Witness ==
    /\ resp.op = "update_role"
    /\ resp.status = HTTP_403
    /\ cache[resp.req.token.sub].present
    /\ cache[resp.req.token.sub].data.role = ADMIN

C7_Step ==
    resp'.op = "update_role" /\ resp'.authStatus = HTTP_200 =>
        LET caller == Subject(resp'.req.token)
            target == resp'.req.user_id
        IN
        /\ target = caller.id => resp'.status = HTTP_406 /\ users' = users
        /\ target # caller.id /\ target \in UserIds =>
              /\ resp'.status = HTTP_200
              /\ resp'.body = resp'.req.new_role
              /\ users' = [users EXCEPT ![target].role = resp'.req.new_role]

\* C7: update-role by an admin with user_id equal to the caller's own id
\* yields 406 and changes no identity; with the id of another existing
\* identity it sets that identity's role to new_role and returns it.
C7_UpdateRole == [][C7_Step]_vars

C7_Witness ==
    /\ resp.op = "update_role"
    /\ resp.status = HTTP_406
    /\ resp.req.new_role = USER
    /\ resp.req.user_id = resp.user.id

SchemaFields(u) ==
    [id |-> u.id, username |-> u.username, email |-> u.email,
     avatar |-> u.avatar, role |-> u.role]

C8_Step ==
    /\ resp.op = "me" /\ resp.authStatus = HTTP_200
    /\ resp.req.fault = "none" /\ ~resp.hit /\ resp.populated
    /\ resp'.op = "me" /\ resp'.req.fault = "none"
    /\ ~InvalidToken(resp'.req.token, now)
    /\ resp'.req.token.sub = resp.req.token.sub
    => /\ resp'.authStatus = HTTP_200
       /\ ~resp'.dbLookup
       /\ SchemaFields(resp'.user) = SchemaFields(resp.user)

\* C8: for every stored identity, including one whose avatar is empty, after
\* a get_current_user call that misses the cache and populates it, the
\* immediately following call for the same subject (within the TTL) returns
\* identical identity fields and performs no storage lookup.
C8_HitAfterPopulate == [][C8_Step]_vars

C9_Step ==
    /\ resp'.op = "me"
    /\ ~InvalidToken(resp'.req.token, now)
    /\ \/ resp'.req.fault = "get"
       \/ /\ cache[resp'.req.token.sub].present
          /\ ~UserModel_valid(json_loads(cache[resp'.req.token.sub].data))
    => resp'.dbLookup /\ resp'.authStatus # HTTP_500

\* C9: every cache read failure in get_current_user, a network error of the
\* cache get or a failure to deserialize the cached value, is treated as a
\* miss: the resolver falls back to the storage lookup and does not fail.
C9_ReadFailureIsMiss == [][C9_Step]_vars

Issued == 1..(nextContactId - 1)

StoredIds == { c.id : c \in contacts }

ByIdOps == {"read_contact", "update_contact", "remove_contact"}

\* the caller of the request answered by r owns a stored contact with the
\* requested id
OwnsRequested(r) ==
    \E c \in contacts : c.id = r.req.contact_id /\ c.user_id = r.user.id

Requested(r) ==
    CHOOSE c \in contacts : c.id = r.req.contact_id /\ c.user_id = r.user.id

C11_Step ==
    /\ resp'.op = "create_contact" /\ resp'.authStatus = HTTP_200 =>
          /\ resp'.status = HTTP_201
          /\ resp'.body.id \notin Issued
          /\ resp'.body.id \notin StoredIds
          /\ \A f \in DOMAIN resp'.req.body : resp'.body[f] = resp'.req.body[f]
          /\ \E c \in contacts' \ contacts :
                ContactResponse(c) = resp'.body /\ c.user_id = resp'.user.id
    /\ resp'.op = "read_contact" /\ resp'.authStatus = HTTP_200 /\ OwnsRequested(resp') =>
          /\ resp'.status = HTTP_200
          /\ resp'.body = ContactResponse(Requested(resp'))
    /\ resp'.op = "remove_contact" /\ resp'.authStatus = HTTP_200 /\ OwnsRequested(resp') =>
          /\ resp'.status = HTTP_200
          /\ resp'.body = ContactResponse(Requested(resp'))
          /\ contacts' = contacts \ {Requested(resp')}
    /\ /\ resp'.op \in ByIdOps /\ resp'.authStatus = HTTP_200
       /\ resp'.req.contact_id \in Issued \ StoredIds
       => resp'.status = HTTP_404 /\ contacts' = contacts

\* C11: contact lifecycle of one owner. Create answers 201 with an id never
\* handed out before and the submitted fields; get by the id of a stored
\* contact of the caller answers 200 with the stored fields; delete answers
\* 200 with the deleted contact and removes it; every later get, update or
\* delete of an id that was handed out and deleted answers 404.
C11_Lifecycle == [][C11_Step]_vars

C11_Witness ==
    /\ resp.op = "read_contact"
    /\ resp.authStatus = HTTP_200
    /\ resp.status = HTTP_404
    /\ resp.req.contact_id \in Issued \ StoredIds

C12_Step ==
    resp'.op \in ByIdOps /\ resp'.authStatus = HTTP_200 /\ ~OwnsRequested(resp') =>
        /\ resp'.status = HTTP_404
        /\ resp'.detail = "Contact not found"
        /\ resp'.body = NoContact
        /\ UNCHANGED <<contacts, nextContactId>>

\* C12: get, update and delete of a contact id that does not exist for the
\* caller answer 404 'Contact not found' and leave every stored contact
\* unchanged.
C12_NotFound == [][C12_Step]_vars

C12_Witness ==
    /\ resp.op = "update_contact"
    /\ resp.authStatus = HTTP_200
    /\ resp.status = HTTP_404
    /\ resp.req.contact_id \notin Issued
    /\ contacts # {}

\* C13: upcoming_birthdays(owner) includes every contact of the owner whose
\* birthdate is in the same month as today and whose day-of-month lies in
\* [today.day, today.day + 7], for every value of today.
C13_SameMonthIncluded ==
    resp.op = "upcoming_birthdays" /\ resp.status = HTTP_200 =>
        \A c \in contacts :
            /\ c.user_id = resp.user.id
            /\ c.birthdate.month = today.month
            /\ c.birthdate.day \in today.day..(today.day + 7)
            => c.id \in BodyIds(resp)

\* sub occurs in str as a contiguous run, ignoring case
ContainsIgnoreCase(str, sub) ==
    \E i \in 0..(Len(str) - Len(sub)) :
        LowerStr(SubSeq(str, i + 1, i + Len(sub))) = LowerStr(sub)

Supplied(f) == f.given /\ f.value # <<>>

\* the caller's contacts the list operation is specified to select from
Selected(r) ==
    LET own == { c \in contacts : c.user_id = r.user.id }
        q == r.req
    IN IF Supplied(q.name) \/ Supplied(q.lastname) \/ Supplied(q.email)
       THEN { c \in own :
                \/ Supplied(q.name) /\ ContainsIgnoreCase(c.firstname, q.name.value)
                \/ Supplied(q.lastname) /\ ContainsIgnoreCase(c.lastname, q.lastname.value)
                \/ Supplied(q.email) /\ ContainsIgnoreCase(c.email, q.email.value) }
       ELSE own

WindowSize(n, skip, limit) ==
    IF skip >= n THEN 0 ELSE IF n - skip < limit THEN n - skip ELSE limit

\* C14: list(owner, skip, limit, name, lastname, email) returns, within the
\* skip/limit window, exactly the owner's contacts that match ANY supplied
\* filter by case-insensitive substring; with no filter supplied it returns
\* the owner's contacts unfiltered; an empty-string filter counts as not
\* supplied.
C14_ListFilters ==
    resp.op = "read_contacts" /\ resp.status = HTTP_200 =>
        LET sel == Selected(resp) IN
        /\ \A i \in DOMAIN resp.body :
              \E c \in sel : resp.body[i] = ContactResponse(c)
        /\ Len(resp.body) = WindowSize(Cardinality(sel), resp.req.skip, resp.req.limit)
        /\ Cardinality(BodyIds(resp)) = Len(resp.body)

\* C15: request_email answers 200 for every submitted email: for an
\* unconfirmed identity it schedules a confirmation email, for a confirmed
\* identity it schedules none, and for an email that matches no identity it
\* still answers 200 without failing.
C15_RequestEmailAlways200 ==
    resp.op = "request_email" /\ EmailStr_valid(resp.req) =>
        LET user == get_user_by_email(resp.req) IN
        /\ resp.status = HTTP_200
        /\ user # NoUser =>
              resp.tasks = IF user.confirmed THEN {}
                           ELSE {send_email(user.email, user.username)}
        /\ user = NoUser => resp.tasks = {}

C16_Step ==
    /\ /\ resp'.op = "confirmed_email"
       /\ resp'.req.key = JWT_SECRET /\ resp'.req.exp >= now
       => LET holders == { i \in UserIds : users[i].email = resp'.req.sub } IN
          /\ holders = {} => resp'.status = HTTP_400 /\ users' = users
          /\ \A i \in holders :
                /\ resp'.status = HTTP_200
                /\ users'[i].confirmed
                /\ users' = [users EXCEPT ![i].confirmed = TRUE]
                /\ users[i].confirmed =>
                      resp'.detail = "already confirmed" /\ users' = users
    /\ /\ resp.op = "confirmed_email" /\ resp.status = HTTP_200
       /\ resp'.op = "confirmed_email" /\ resp'.req = resp.req
       /\ resp'.req.exp >= now
       => /\ resp'.status = HTTP_200
          /\ resp'.detail = "already confirmed"
          /\ users' = users

C17_Step ==
    resp'.op = "update_password" /\ resp'.authStatus = HTTP_200 =>
        LET caller == Subject(resp'.req.token)
            q == resp'.req
            oldOk == verify_password(q.old_password, caller.hashed_password)
            newOk == q.new_password1 = q.new_password2
        IN
        /\ \A i \in UserIds \ {caller.id} : users'[i] = users[i]
        /\ Len(users') = Len(users)
        /\ oldOk /\ newOk =>
              /\ resp'.status = HTTP_200
              /\ verify_password(q.new_password1, users'[caller.id].hashed_password)
              /\ \E s \in Salts :
                    users' = [users EXCEPT ![caller.id].hashed_password =
                                             get_password_hash(q.new_password1, s)]
        /\ ~oldOk => resp'.status = HTTP_401 /\ users' = users
        /\ oldOk /\ ~newOk => resp'.status = HTTP_400 /\ users' = users

\* C17: update-password replaces the caller's stored password hash by the
\* hash of new_password1 iff old_password verifies against the caller's
\* currently stored hash and new_password1 equals new_password2; a wrong old
\* password yields 401 and unequal new passwords yield 400, both leaving the
\* stored hash unchanged; no other identity's hash ever changes.
C17_UpdatePassword == [][C17_Step]_vars

C17_Witness ==
    /\ resp.op = "update_password"
    /\ resp.status = HTTP_200
    /\ resp.hit
    /\ resp.req.old_password # resp.req.new_password1
    /\ verify_password(resp.req.new_password1, users[resp.user.id].hashed_password)

C18_Step ==
    /\ \A i, j \in 1..Len(users') :
          i # j => /\ users'[i].email # users'[j].email
                   /\ users'[i].username # users'[j].username
    /\ resp'.op = "register" /\ resp'.n # resp.n /\ resp'.status # HTTP_201 =>
          resp'.status = HTTP_409

\* C18: under any interleaving of concurrent register requests carrying the
\* same email (or the same username), at most one identity with that email
\* (username) is ever persisted, and each request that loses the race ends
\* with 409 Conflict rather than an unhandled storage error.
C18_RaceLoserConflict == [][C18_Step]_vars

\* C19: staleness of the session cache is bounded by the TTL. Every entry
\* written by get_current_user carries an expiry at most 3600 s after it was
\* written and is gone by then, also when a cache command fails between the
\* write and the expiry setting.
C19_TtlBounded ==
    \A k \in Subjects :
        cache[k].present =>
            /\ cache[k].expireAt # NoExpiry
            /\ cache[k].expireAt > now
            /\ cache[k].expireAt <= now + CACHE_TTL

C20_Step ==
    /\ resp'.op = "update_contact" /\ resp'.status = HTTP_200 =>
          \E c \in contacts :
              LET b == resp'.req.body
                  replaced ==
                      [id |-> c.id, user_id |-> c.user_id,
                       firstname |-> b.firstname, lastname |-> b.lastname,
                       email |-> b.email, phone |-> b.phone, birthdate |-> b.birthdate,
                       additional |-> IF "additional" \in DOMAIN b
                                      THEN b.additional ELSE NoneText]
              IN /\ c.id = resp'.req.contact_id
                 /\ c.user_id = resp'.user.id
                 /\ contacts' = (contacts \ {c}) \cup {replaced}
                 /\ resp'.body = ContactResponse(replaced)
    /\ \A c \in contacts, d \in contacts' :
          c.id = d.id /\ c # d => resp'.op = "update_contact" /\ resp'.status = HTTP_200

\* C20: a contact is mutated only by full-record replacement. A successful
\* update sets firstname, lastname, email, phone, birthdate and additional
\* to the body's values (an omitted additional becomes empty) and leaves the
\* contact's id and owner, and every other contact, unchanged; no other
\* operation changes a stored contact's fields.
C20_FullReplace == [][C20_Step]_vars

C20_Witness ==
    /\ resp.op = "update_contact"
    /\ resp.status = HTTP_200
    /\ "additional" \notin DOMAIN resp.req.body
    /\ resp.body.additional = NoneText
    /\ Cardinality(contacts) = 2
    /\ \E c \in contacts : c.id = resp.body.id /\ c.additional = NoneText
    /\ \E c \in contacts : c.id # resp.body.id /\ c.additional # NoneText

MutatingOps == {"update_role", "update_avatar", "update_password", "confirmed_email"}

C21_Step ==
    /\ resp'.op \in MutatingOps =>
          \A k \in Subjects : cache[k].present => cache'[k] = cache[k]
    /\ /\ resp'.op = "me" /\ resp'.req.fault = "none"
       /\ ~InvalidToken(resp'.req.token, now)
       /\ Subject(resp'.req.token) # NoUser
       => LET X == resp'.req.token.sub IN
          /\ cache[X].present =>
                /\ resp'.authStatus = HTTP_200
                /\ resp'.user.role = json_loads(cache[X].data).role
                /\ resp'.user.avatar = json_loads(cache[X].data).avatar
          /\ ~cache[X].present =>
                /\ resp'.authStatus = HTTP_200
                /\ resp'.user.role = Subject(resp'.req.token).role
                /\ resp'.user.avatar = Subject(resp'.req.token).avatar

\* C21: no operation invalidates the session cache. update-role,
\* update-password, avatar update and email confirmation leave every cache
\* entry unchanged, so while an entry for identity X exists get_current_user
\* for X returns the role and avatar of the snapshot (the values before any
\* later mutation), and once the entry has expired it returns the stored
\* values.
C21_NoInvalidation == [][C21_Step]_vars

\* C22: get_current_admin_user resolves the identity exactly as
\* get_current_user does and only adds the role check: for every token, in
\* every reachable cache/storage state, when get_current_user returns an
\* admin identity get_current_admin_user returns the same identity, and when
\* get_current_user fails get_current_admin_user fails the same way.
C22_AdminRefinesResolve ==
    \A t \in Tokens :
        LET resolve == get_current_user(t, "none")
            resolve_admin == get_current_admin_user(t)
        IN
        /\ resolve.status = HTTP_200 /\ resolve.user.role = ADMIN =>
              /\ resolve_admin.status = HTTP_200
              /\ SchemaFields(resolve_admin.user) = SchemaFields(resolve.user)
        /\ resolve.status # HTTP_200 =>
              /\ resolve_admin.status = resolve.status
              /\ resolve_admin.detail = resolve.detail

C23_Step ==
    /\ /\ resp'.op = "me"
       /\ ~InvalidToken(resp'.req.token, now)
       /\ Subject(resp'.req.token) # NoUser
       => /\ resp'.authStatus = HTTP_200
          /\ resp'.user.id = Subject(resp'.req.token).id
          /\ resp'.user.username = resp'.req.token.sub
    /\ /\ resp'.op = "confirmed_email"
       /\ ~InvalidToken(resp'.req, now)
       /\ get_user_by_email(resp'.req.sub) # NoUser
       => /\ resp'.status = HTTP_200
          /\ users'[get_user_by_email(resp'.req.sub).id].confirmed

\* C23: token kinds are not distinguished. get_current_user accepts any
\* validly signed, unexpired token whose subject equals an existing
\* username, including one issued by create_email_token, and confirmed_email
\* accepts any validly signed, unexpired token whose subject equals an
\* existing identity's email, including a session token issued by login.
C23_TokenKindsInterchangeable == [][C23_Step]_vars

C23_Witness ==
    /\ resp.op = "me"
    /\ resp.authStatus = HTTP_200
    /\ "iat" \in DOMAIN resp.req.token
    /\ resp.req.token = create_email_token(resp.user.email, 0)
    /\ users[resp.user.id].confirmed

HasAdmin(us) == \E i \in 1..Len(us) : us[i].role = ADMIN

\* C25: once some identity has role admin, every later state has at least
\* one identity with role admin, under any interleaving of concurrent
\* update-role requests whose admin check and role write are separate
\* steps: the last admin can never be demoted.
C25_AdminNeverLost == [][HasAdmin(users) => HasAdmin(users')]_vars

\* C26: starting from an empty system, for any interleaving of concurrent
\* register requests with distinct usernames and emails, whose user
\* creation, is_only_user check and promotion are separate committed steps
\* and which may fail between them, once all requests have finished at
\* least one identity has role admin.
C26_SomeAdminAfterRegistration ==
    (\A c \in Clients : inflight[c] = Idle) /\ Len(users) > 0 => HasAdmin(users)

\* C27: in every reachable state each session cache entry stored under key
\* u is a snapshot of the stored identity whose username is u: the identity
\* exists in storage and the snapshot's id, username and email equal the
\* stored ones, so an identity resolved from the cache has the id (and thus
\* the contacts) of the one resolved from storage.
C27_SnapshotOfStored ==
    /\ \A u \in Subjects :
          cache[u].present =>
              /\ get_user_by_username(u) # NoUser
              /\ cache[u].data.id = get_user_by_username(u).id
              /\ cache[u].data.username = u
              /\ cache[u].data.email = get_user_by_username(u).email
    /\ resp.op = "me" /\ resp.hit =>
          /\ resp.user.id = Subject(resp.req.token).id
          /\ resp.user.username = Subject(resp.req.token).username
          /\ resp.user.email = Subject(resp.req.token).email

C27_Witness ==
    /\ resp.op = "me"
    /\ resp.hit
    /\ resp.user.avatar # Subject(resp.req.token).avatar
    /\ \E u \in Subjects :
          cache[u].present /\ cache[u].data.role # get_user_by_username(u).role

C28_Step ==
    /\ resp.op = "update_password" /\ resp.status = HTTP_200
    /\ resp.req.old_password # resp.req.new_password1
    => LET X == users[resp.user.id] IN
       /\ resp'.op = "login" /\ resp'.req.username = X.username =>
             /\ resp'.req.password = resp.req.new_password1 =>
                   resp'.detail # "invalid credentials"
             /\ resp'.req.password = resp.req.old_password =>
                   resp'.status = HTTP_401 /\ resp'.detail = "invalid credentials"
             /\ X.confirmed =>
                   (resp'.status = HTTP_200 <=>
                        resp'.req.password = resp.req.new_password1)
       /\ /\ resp'.op = "update_password" /\ resp'.authStatus = HTTP_200
          /\ resp'.user.id = X.id
          => /\ resp'.req.old_password = resp.req.new_password1 =>
                   resp'.status \in {HTTP_200, HTTP_400}
             /\ resp'.req.old_password = resp.req.old_password =>
                   resp'.status = HTTP_401 /\ users' = users

\* C28: a password change takes effect immediately and independently of
\* the session cache: right after a successful update-password, login and
\* update-password accept the new password and reject the old one, even
\* while a cache entry for the identity written before the change exists.
C28_PasswordImmediate == [][C28_Step]_vars

C28_Witness ==
    /\ resp.op = "login"
    /\ resp.status = HTTP_200
    /\ cache[resp.req.username].present
    /\ ~verify_password(resp.req.password, cache[resp.req.username].data.hashed_password)

C29_Step ==
    /\ Len(users') >= Len(users)
    /\ \A i \in 1..Len(users) :
          /\ users'[i].id = users[i].id
          /\ users'[i].username = users[i].username
          /\ users'[i].email = users[i].email
          /\ users[i].confirmed => users'[i].confirmed

\* C29: across any sequence of operations a stored identity is never
\* removed, its id, username and email never change, and its confirmed flag
\* is monotonic (once true it never becomes false again).
C29_IdentityStable == [][C29_Step]_vars

C29_Witness ==
    /\ resp.op = "update_role"
    /\ resp.status = HTTP_200
    /\ Len(users) >= 2
    /\ users[resp.req.user_id].confirmed
    /\ users[resp.req.user_id].role = ADMIN
    /\ users[resp.req.user_id].hashed_password.digest = "pw2"

C30_Step ==
    /\ resp'.op = "register" /\ resp'.status = HTTP_201
    /\ Len(users) >= 1
    => /\ Len(users') = Len(users) + 1
       /\ \A i \in 1..Len(users) : users'[i] = users[i]
       /\ LET new == users'[Len(users')] IN
          /\ new.username = resp'.req.username
          /\ new.email = resp'.req.email
          /\ new.role = USER
          /\ new.confirmed = FALSE

\* C30: a register call that succeeds while at least one identity already
\* exists stores the new identity with role user and confirmed = false and
\* changes no field of any pre-existing identity (it never promotes or
\* demotes anyone).
C30_LateRegistration == [][C30_Step]_vars

C30_Witness ==
    /\ resp.op = "register"
    /\ resp.status = HTTP_201
    /\ Len(users) >= 2
    /\ users[Len(users)].username = resp.req.username
    /\ users[Len(users)].role = USER
    /\ ~users[Len(users)].confirmed
    /\ users[1].role = ADMIN
    /\ users[1].confirmed

\* ======================================================= specifications
\* Registration, login and e-mail confirmation, from the empty system.
AuthTokens ==
    [sub : Emails \cup {NoSub}, exp : {FarExp}, key : {JWT_SECRET}]
    \cup [sub : {"ann@x.io"}, exp : {0}, key : {JWT_SECRET}]
    \cup [sub : {"ann@x.io"}, exp : {FarExp}, key : {ForgedKey}]

Next ==
    \/ Tick
    \/ \E u \in Usernames, e \in Emails, p \in Passwords, s \in Salts, g \in BOOLEAN :
         register_user(u, e, p, s, g)
    \/ \E u \in Usernames, p \in Passwords : login_user(u, p)
    \/ \E t \in AuthTokens : confirmed_email(t)
    \/ \E e \in Emails : request_email(e)

Spec == Init /\ [][Next]_vars

\* Token resolution, the session cache and the admin-only operations, from
\* a system in which ann registered first and bob second (his Gravatar
\* lookup failed, so his avatar is None).
RegisteredUsers ==
    << [id |-> 1, username |-> "ann", email |-> "ann@x.io",
        hashed_password |-> get_password_hash("pw1", 1), avatar |-> GravatarUrl,
        confirmed |-> TRUE, role |-> ADMIN],
       [id |-> 2, username |-> "bob", email |-> "bob",
        hashed_password |-> get_password_hash("pw2", 1), avatar |-> AvatarNone,
        confirmed |-> FALSE, role |-> USER] >>

InitRegistered ==
    /\ users = RegisteredUsers
    /\ contacts = {}
    /\ nextContactId = 1
    /\ cache = [k \in Subjects |-> NoEntry]
    /\ now = 0
    /\ today \in Todays
    /\ resp = InitResp
    /\ inflight = [c \in Clients |-> Idle]

NextResolve ==
    \/ Tick
    \/ \E t \in Tokens : me(t, "none")
    \/ \E t \in Tokens, ok \in BOOLEAN : update_avatar_user(t, ok)
    \/ \E t \in Tokens, i \in 1..MaxUsers, r \in UserRole : update_role(t, i, r)

SpecResolve == InitRegistered /\ [][NextResolve]_vars

\* The session cache under cache-client failures, with role changes that
\* make cached snapshots stale.
AdminTokens == [sub : Usernames, exp : {FarExp}, key : {JWT_SECRET}]

NextCache ==
    \/ Tick
    \/ \E t \in Tokens, f \in Faults : me(t, f)
    \/ \E t \in AdminTokens, i \in 1..MaxUsers : update_role(t, i, ADMIN)
    \/ \E t \in AdminTokens : update_avatar_user(t, TRUE)

SpecCache == InitRegistered /\ [][NextCache]_vars

\* Contact operations of two owners, each resolved from the cache when a
\* usable snapshot exists and from storage otherwise.
ContactTokens == [sub : Usernames, exp : {FarExp}, key : {JWT_SECRET}]

ContactFilters == {NoFilter, Filter(<<"a">>)}

NextContacts ==
    \/ \E t \in ContactTokens : api_get_upcoming_birthdays(t, "none")
    \/ \E t \in ContactTokens, w \in {<<0, 100>>, <<1, 1>>}, n \in ContactFilters :
         read_contacts(t, "none", w[1], w[2], n, NoFilter, NoFilter)
    \/ \E t \in ContactTokens, i \in 1..MaxContacts : read_contact(t, "none", i)
    \/ \E t \in ContactTokens, b \in ContactBodies : create_contact(t, "none", b)
    \/ \E t \in ContactTokens, i \in 1..MaxContacts, b \in ContactBodies :
         update_contact(t, "none", i, b)
    \/ \E t \in ContactTokens, i \in 1..MaxContacts : remove_contact(t, "none", i)

SpecContacts == InitRegistered /\ [][NextContacts]_vars

\* Concurrent registrations from the empty system; the Gravatar lookup
\* succeeds.
NextRegisterRace ==
    \/ \E c \in Clients, u \in Usernames, e \in Emails :
         register_check_email(c, u, e, "pw1")
    \/ \E c \in Clients : register_check_username(c)
    \/ \E c \in Clients : register_create(c, 1, TRUE)
    \/ \E c \in Clients : register_is_only_user(c)
    \/ \E c \in Clients : register_respond(c)

SpecRegisterRace == Init /\ [][NextRegisterRace]_vars

\* Mutations of identities interleaved with token resolution and expiry of
\* cache entries.
BobEmailToken == [sub |-> "bob", exp |-> FarExp, key |-> JWT_SECRET]

NextStale ==
    \/ Tick
    \/ \E t \in AdminTokens : me(t, "none")
    \/ \E t \in AdminTokens, i \in 1..MaxUsers, r \in UserRole : update_role(t, i, r)
    \/ \E t \in AdminTokens : update_avatar_user(t, TRUE)
    \/ \E t \in AdminTokens, o \in Passwords, s \in Salts :
         update_password(t, "none", o, "pw2", "pw2", s)
    \/ confirmed_email(BobEmailToken)

SpecStale == InitRegistered /\ [][NextStale]_vars

\* Tokens of each kind presented to the endpoint of the other kind: session
\* tokens (and forged copies) to confirmed_email, email-verification tokens
\* to a bearer-protected route.
IssueClocks == {0}

SessionTokens ==
    { create_access_token(u, c) : u \in Usernames, c \in IssueClocks }

EmailTokens ==
    { create_email_token(e, c) : e \in Emails, c \in IssueClocks }

Forged(ts) == { [t EXCEPT !.key = ForgedKey] : t \in ts }

NextTokenKinds ==
    \/ Tick
    \/ \E u \in Usernames, e \in Emails, s \in Salts : register_user(u, e, "pw1", s, TRUE)
    \/ \E u \in Usernames : login_user(u, "pw1")
    \/ \E t \in SessionTokens \cup Forged(SessionTokens) : confirmed_email(t)
    \/ \E t \in EmailTokens \cup Forged(EmailTokens) : me(t, "none")

SpecTokenKinds == Init /\ [][NextTokenKinds]_vars

\* Concurrent registrations with distinct usernames and emails, one pair per
\* client, any of which may be cut short by a storage error.
Credentials ==
    [c1 |-> [username |-> "ann", email |-> "ann@x.io"],
     c2 |-> [username |-> "bob", email |-> "bob"]]

NextRegisterDistinct ==
    \/ \E c \in Clients, p \in Passwords :
         register_check_email(c, Credentials[c].username, Credentials[c].email, p)
    \/ \E c \in Clients : register_check_username(c)
    \/ \E c \in Clients, s \in Salts : register_create(c, s, TRUE)
    \/ \E c \in Clients : register_is_only_user(c)
    \/ \E c \in Clients : register_respond(c)
    \/ \E c \in Clients : register_fail(c)

SpecRegisterDistinct == Init /\ [][NextRegisterDistinct]_vars

\* Concurrent update-role requests of the two registered identities.
NextRoleRace ==
    \/ \E c \in Clients, t \in AdminTokens, i \in 1..MaxUsers, r \in UserRole :
         update_role_check(c, t, i, r)
    \/ \E c \in Clients : update_role_write(c)

SpecRoleRace == InitRegistered /\ [][NextRoleRace]_vars

\* Every operation that writes the users table, from an empty table.
NextIdentity ==
    \/ \E c \in Clients :
         register_user(Credentials[c].username, Credentials[c].email, "pw1", 1, TRUE)
    \/ \E t \in EmailTokens : confirmed_email(t)
    \/ \E t \in SessionTokens, i \in 1..MaxUsers, r \in UserRole : update_role(t, i, r)
    \/ \E t \in SessionTokens : update_avatar_user(t, TRUE)
    \/ \E t \in SessionTokens :
         update_password(t, "none", "pw1", "pw2", "pw2", 1)

SpecIdentity == Init /\ [][NextIdentity]_vars

\* Registrations arriving at a table that may already hold identities whose
\* role and confirmed flag have been changed since they registered.
Registrants ==
    { Credentials[c] : c \in Clients } \cup {[username |-> "cy", email |-> "cy@x.io"]}

NextRegisterLate ==
    \/ \E x \in Registrants, g \in BOOLEAN :
         register_user(x.username, x.email, "pw1", 1, g)
    \/ \E t \in EmailTokens : confirmed_email(t)
    \/ \E t \in SessionTokens, i \in 1..MaxUsers, r \in UserRole : update_role(t, i, r)

SpecRegisterLate == Init /\ [][NextRegisterLate]_vars

\* Password changes by both identities, interleaved with logins.
NextPassword ==
    \/ \E t \in Tokens, o \in Passwords, n1 \in Passwords, n2 \in Passwords, s \in Salts :
         update_password(t, "none", o, n1, n2, s)
    \/ \E u \in Usernames, p \in Passwords : login_user(u, p)

SpecPassword == InitRegistered /\ [][NextPassword]_vars

\* Listing with every combination of absent, empty, plain and pattern
\* query parameters that the claims distinguish.
ListFilters ==
    { <<NoFilter, NoFilter, NoFilter>>,
      <<Filter(<<>>), NoFilter, NoFilter>>,
      <<Filter(<<"L">>), NoFilter, NoFilter>>,
      <<Filter(<<"l">>), Filter(<<"l">>), NoFilter>>,
      <<NoFilter, Filter(<<"l">>), Filter(<<"c">>)>>,
      <<Filter(<<"l">>), Filter(<<>>), NoFilter>>,
      <<Filter(<<"_">>), NoFilter, NoFilter>> }

ListWindows == { <<0, 100>>, <<0, 1>>, <<1, 1>> }

NextList ==
    \/ \E t \in ContactTokens, w \in ListWindows, f \in ListFilters :
         read_contacts(t, "none", w[1], w[2], f[1], f[2], f[3])
    \/ \E t \in ContactTokens, b \in ContactBodies : create_contact(t, "none", b)

SpecList == InitRegistered /\ [][NextList]_vars

\* Upcoming birthdays on days early and late in a month; datetime.utcnow()
\* is read once per request.
BirthdayTodays ==
    { [year |-> 2024, month |-> 1, day |-> 24], [year |-> 2024, month |-> 1, day |-> 28],
      [year |-> 2024, month |-> 1, day |-> 31], [year |-> 2023, month |-> 2, day |-> 1],
      [year |-> 2023, month |-> 12, day |-> 28] }

InitBirthdays ==
    /\ users = RegisteredUsers
    /\ contacts = {}
    /\ nextContactId = 1
    /\ cache = [k \in Subjects |-> NoEntry]
    /\ now = 0
    /\ today \in BirthdayTodays
    /\ resp = InitResp
    /\ inflight = [c \in Clients |-> Idle]

NextBirthdays ==
    \/ \E t \in ContactTokens : api_get_upcoming_birthdays(t, "none")
    \/ \E t \in ContactTokens, b \in ContactBodies : create_contact(t, "none", b)
    \/ \E t \in ContactTokens, i \in 1..MaxContacts : remove_contact(t, "none", i)

SpecBirthdays == InitBirthdays /\ [][NextBirthdays]_vars
====
